---- MODULE Spec2Model ----
(***************************************************************************)
(* A model of diff_heuristics.py (mhagger/diff-slider-tools): lines,       *)
(* split measurements, the split scorer, diff lines and groups, the hunk   *)
(* parser, sliders and the file-diff envelope parser.                      *)
(*                                                                         *)
(* A text line is a sequence of one-character strings.  Python's None is   *)
(* the value None.  A Python list object that the code mutates in place    *)
(* lives in `heap` and is referred to by its index there, so that aliasing *)
(* (two references to one list) and copying (list(x)) are told apart.      *)
(***************************************************************************)
EXTENDS Integers, Sequences, FiniteSets, TLC

VARIABLES
    pc,        \* "lines": a hunk's lines are about to be parsed; "hunk": a
               \* Hunk has been built; "slider": iter_sliders has yielded a
               \* Slider; "section": a file section is about to be parsed;
               \* "filediff": FileDiff(lines) has returned; "sections",
               \* "shifts": a generator is being iterated over; "args": a
               \* function is about to be called; "done": the generator is
               \* exhausted or the function has returned; otherwise the name
               \* of the exception that ended the run
    input,     \* the lines handed to Hunk(...) or to FileDiff(...)
    hunk,      \* the Hunk object: old_line, new_line, difflines, groups
    heap,      \* the list objects of the groups (Group.difflines)
    slider,    \* the Slider object
    last,      \* the last operation on the slider: its name, return value and
               \* exception, the slider before it, the slider as constructed
               \* and the index in hunk.groups of the change it was built for
    nslides,   \* number of slide() calls that moved lines so far
    filediff,  \* the FileDiff object
    result     \* what a generator has yielded so far and where it stands, or
               \* what a function has returned

vars == <<pc, input, hunk, heap, slider, last, nslides, filediff, result>>

-----------------------------------------------------------------------------
(* Bounds of the model.                                                    *)

\* longest hunk body of Spec (prefixes ' ', '+', '-')
MaxBody == 4
\* longest hunk body of SpecGroups (prefixes ' ', '+', '-', '\')
MaxGroupsBody == 4
\* longest pre-context, change and post-context of the hunks of SpecScore
MaxPre == 2
MaxChange == 2
MaxPost == 4
\* slide() calls with a non-zero shift per behaviour
MaxSlides == 2
MaxPrologue == 2
MaxFileLines == 2
MaxHunkLines == 2
\* most file sections of SpecFiles
MaxSections == 3
\* most hunks of a section of SpecHunks
MaxHunks == 3
\* most words of a line and most lines read by iter_shifts
MaxWords == 5
MaxShiftLines == 2
\* most lines of a line array given to measure
MaxMeasureLines == 5

-----------------------------------------------------------------------------
(* Python values.                                                          *)

None == -1

Max(a, b) == IF a >= b THEN a ELSE b
Min(a, b) == IF a <= b THEN a ELSE b

\* seq[lo:hi] of Python for 0 <= lo, hi (0-based, hi exclusive), clamped.
Slice(seq, lo, hi) ==
    LET l == Min(Max(lo, 0), Len(seq))
        h == Min(Max(hi, 0), Len(seq))
    IN IF h <= l THEN <<>> ELSE SubSeq(seq, l + 1, h)

\* seq[shift:] for shift < 0: the last -shift elements (all, if there are fewer).
Tail_(seq, shift) == Slice(seq, Len(seq) + shift, Len(seq))
\* seq[:shift] for shift < 0: all but the last -shift elements.
Front_(seq, shift) == Slice(seq, 0, Len(seq) + shift)

RECURSIVE Flatten(_)
Flatten(seqs) ==
    IF seqs = <<>> THEN <<>> ELSE Head(seqs) \o Flatten(Tail(seqs))

StartsWith(line, p) ==
    Len(line) >= Len(p) /\ SubSeq(line, 1, Len(p)) = p

\* \s of the re module, and the characters str.rstrip() strips
IsSpace(c) == c \in {" ", "\t"}

IsDigit(c) == c \in {"0", "1", "2", "3", "4", "5", "6", "7", "8", "9"}

DigitVal(c) ==
    CASE c = "0" -> 0 [] c = "1" -> 1 [] c = "2" -> 2 [] c = "3" -> 3
      [] c = "4" -> 4 [] c = "5" -> 5 [] c = "6" -> 6 [] c = "7" -> 7
      [] c = "8" -> 8 [] c = "9" -> 9

\* int(digits) for a non-empty run of decimal digits
RECURSIVE IntOf(_)
IntOf(digits) ==
    IF digits = <<>> THEN 0
    ELSE 10 * IntOf(SubSeq(digits, 1, Len(digits) - 1)) + DigitVal(digits[Len(digits)])

-----------------------------------------------------------------------------
(* get_indent                                                              *)

RECURSIVE Rstrip(_)
Rstrip(line) ==
    IF line # <<>> /\ IsSpace(line[Len(line)])
    THEN Rstrip(SubSeq(line, 1, Len(line) - 1))
    ELSE line

RECURSIVE IndentLoop(_, _, _)
IndentLoop(line, k, ret) ==
    IF k > Len(line) THEN ret
    ELSE IF line[k] = " " THEN IndentLoop(line, k + 1, ret + 1)
    ELSE IF line[k] = "\t" THEN IndentLoop(line, k + 1, ret + (8 - (ret % 8)))
    ELSE ret

get_indent(line) ==
    LET l == Rstrip(line)
    IN IF l = <<>> THEN None ELSE IndentLoop(l, 1, 0)

-----------------------------------------------------------------------------
(* DiffLine, Group, Context, Change                                        *)

DiffLine(prefix, line) == [prefix |-> prefix, line |-> line]

LinesOf(difflines) == [k \in 1..Len(difflines) |-> difflines[k].line]

IsDelete(d) == d.prefix = "-"
IsAdd(d) == d.prefix = "+"

\* Context(group): a Group holding the lines
Context(difflines) ==
    [exc |-> "none", kind |-> "Context", prefix |-> " ",
     difflines |-> difflines, deletes |-> <<>>, adds |-> <<>>]

\* Change._compute_prefix
compute_prefix(deletes, adds) ==
    IF deletes # <<>> /\ adds # <<>> THEN "?"
    ELSE IF deletes # <<>> THEN "-"
    ELSE IF adds # <<>> THEN "+"
    ELSE "RuntimeError"

\* Change.__init__: exc names the exception it raises, if any
Change(difflines) ==
    LET deletes == SelectSeq(difflines, IsDelete)
        adds == SelectSeq(difflines, IsAdd)
        prefix == compute_prefix(deletes, adds)
    IN  [exc |-> IF difflines = <<>> THEN "ParsingError"
                 ELSE IF prefix = "RuntimeError" THEN "RuntimeError"
                 ELSE "none",
         kind |-> "Change", prefix |-> prefix,
         difflines |-> difflines, deletes |-> deletes, adds |-> adds]

\* Group.old_lines / Change.old_lines
old_lines(g) == IF g.kind = "Change" THEN g.deletes ELSE g.difflines
\* Group.new_lines / Change.new_lines
new_lines(g) == IF g.kind = "Change" THEN g.adds ELSE g.difflines

-----------------------------------------------------------------------------
(* Hunk.iter_groups: the generator's loop, one diffline per iteration.     *)
(* The result is the sequence of groups yielded; a group whose exc is not  *)
(* "none" is the exception that ends the generator.                        *)

\* after the loop: the last Change, if one is open, and the last Context
iter_groups_end_open(processing_change, group, out) ==
    IF processing_change
    THEN Append(out, Change(group))
    ELSE Append(out, Context(group))

iter_groups_end(processing_change, group, out) ==
    IF processing_change
    THEN LET g == Change(group)
         IN IF g.exc # "none" THEN Append(out, g)
            ELSE Append(Append(out, g), Context(<<>>))
    ELSE Append(out, Context(group))

RECURSIVE iter_groups_loop(_, _, _, _, _)
iter_groups_loop(difflines, k, processing_change, group, out) ==
    IF k > Len(difflines)
    THEN iter_groups_end(processing_change, group, out)
    ELSE LET diffline == difflines[k]
             is_change_line == diffline.prefix # " "
         IN IF diffline.prefix = "\\"
            THEN iter_groups_loop(difflines, k + 1, processing_change, group, out)
            ELSE IF is_change_line /\ ~processing_change
            THEN iter_groups_loop(difflines, k + 1, TRUE, <<diffline>>,
                                  Append(out, Context(group)))
            ELSE IF ~is_change_line /\ processing_change
            THEN LET g == Change(group)
                 IN IF g.exc # "none" THEN Append(out, g)
                    ELSE iter_groups_loop(difflines, k + 1, FALSE, <<diffline>>,
                                          Append(out, g))
            ELSE iter_groups_loop(difflines, k + 1, processing_change,
                                  Append(group, diffline), out)

iter_groups(difflines) == iter_groups_loop(difflines, 1, FALSE, <<>>, <<>>)

-----------------------------------------------------------------------------
(* Hunk.HEADER_RE and Hunk.__init__                                        *)

\* the position after the longest run of digits that starts at position p
RECURSIVE DigitsEnd(_, _)
DigitsEnd(line, p) ==
    IF p <= Len(line) /\ IsDigit(line[p]) THEN DigitsEnd(line, p + 1) ELSE p

\* (\,(\d+))? at position p
HeaderLen(line, p) ==
    LET e == DigitsEnd(line, p + 1)
    IN IF p <= Len(line) /\ line[p] = "," /\ e > p + 1
       THEN [next |-> e, val |-> IntOf(SubSeq(line, p + 1, e - 1))]
       ELSE [next |-> p, val |-> None]

\* \-(\d+)(\,(\d+))? at position p (sign "-"), or \+... (sign "+")
HeaderRange(line, p, sign) ==
    LET e == DigitsEnd(line, p + 1)
        l == HeaderLen(line, e)
    IN IF p <= Len(line) /\ line[p] = sign /\ e > p + 1
       THEN [ok |-> TRUE, next |-> l.next,
             start |-> IntOf(SubSeq(line, p + 1, e - 1)), len |-> l.val]
       ELSE [ok |-> FALSE, next |-> p, start |-> 0, len |-> None]

\* HEADER_RE.match(line): ^@@\s-L(,M)?\s+L(,M)?\s@@
HEADER_RE(line) ==
    LET At(p, c) == p <= Len(line) /\ line[p] = c
        Sp(p) == p <= Len(line) /\ IsSpace(line[p])
        old == HeaderRange(line, 4, "-")
        new == HeaderRange(line, old.next + 1, "+")
    IN  [matched |-> /\ At(1, "@") /\ At(2, "@") /\ Sp(3)
                     /\ old.ok /\ Sp(old.next)
                     /\ new.ok /\ Sp(new.next)
                     /\ At(new.next + 1, "@") /\ At(new.next + 2, "@"),
         old_line |-> old.start, old_len |-> old.len,
         new_line |-> new.start, new_len |-> new.len]

\* Hunk(old_filename, new_filename, lines); exc names the exception raised
Hunk(lines) ==
    LET m == HEADER_RE(lines[1])
        body == Tail(lines)
        difflines == [k \in 1..Len(body) |->
                         DiffLine(body[k][1], Tail(body[k]))]
        groups == iter_groups(difflines)
        raised == IF ~m.matched THEN "ParsingError"
                  \* line[0] of an empty line
                  ELSE IF \E k \in 1..Len(body) : body[k] = <<>> THEN "IndexError"
                  ELSE groups[Len(groups)].exc
    IN  IF raised # "none"
        THEN [exc |-> raised, old_line |-> 0, old_len |-> None, new_line |-> 0,
              new_len |-> None, difflines |-> <<>>, groups |-> <<>>]
        ELSE [exc |-> "none", old_line |-> m.old_line, old_len |-> m.old_len,
              new_line |-> m.new_line, new_len |-> m.new_len,
              difflines |-> difflines, groups |-> groups]

-----------------------------------------------------------------------------
(* List objects.  heap[id] is the content of list object id.  A group of   *)
(* the state holds the ids of its lists: difflines, and for a Change the   *)
(* difflines of its deletes and adds Groups.                               *)

\* Group.__init__ / Change.__init__ : self.difflines = list(difflines)
ListAlias(h, src) == [heap |-> h, id |-> src]
ListCopy(h, src) == [heap |-> Append(h, h[src]), id |-> Len(h) + 1]

\* a new list object holding content
ListNew(h, content) == [heap |-> Append(h, content), id |-> Len(h) + 1]

\* the groups of a Hunk as objects
RECURSIVE AllocGroups(_, _, _)
AllocGroups(gvals, h, out) ==
    IF gvals = <<>> THEN [heap |-> h, groups |-> out]
    ELSE LET g == Head(gvals)
         IN IF g.kind = "Context"
            THEN AllocGroups(Tail(gvals), Append(h, g.difflines),
                     Append(out, [kind |-> "Context", prefix |-> " ",
                                  difflines |-> Len(h) + 1,
                                  deletes |-> 0, adds |-> 0]))
            ELSE AllocGroups(Tail(gvals), h \o <<g.difflines, g.deletes, g.adds>>,
                     Append(out, [kind |-> "Change", prefix |-> g.prefix,
                                  difflines |-> Len(h) + 1,
                                  deletes |-> Len(h) + 2, adds |-> Len(h) + 3]))

\* the group object g with its lists read from the heap
GroupVal(h, g) ==
    [kind |-> g.kind, prefix |-> g.prefix, difflines |-> h[g.difflines],
     deletes |-> IF g.deletes = 0 THEN <<>> ELSE h[g.deletes],
     adds |-> IF g.adds = 0 THEN <<>> ELSE h[g.adds]]

-----------------------------------------------------------------------------
(* SplitMeasurements.measure                                               *)

RECURSIVE measure_pre(_, _, _)
measure_pre(lines, i, pre_blank) ==
    IF i < 0 THEN [pre_indent |-> None, pre_blank |-> pre_blank]
    ELSE IF get_indent(lines[i + 1]) # None
    THEN [pre_indent |-> get_indent(lines[i + 1]), pre_blank |-> pre_blank]
    ELSE measure_pre(lines, i - 1, pre_blank + 1)

\* a post scan that stops at the first line, blank or not
measure_post_nearest(lines, i, post_blank) ==
    IF i >= Len(lines) THEN [post_indent |-> None, post_blank |-> post_blank]
    ELSE [post_indent |-> get_indent(lines[i + 1]), post_blank |-> post_blank]

RECURSIVE measure_post(_, _, _)
measure_post(lines, i, post_blank) ==
    IF i >= Len(lines) THEN [post_indent |-> None, post_blank |-> post_blank]
    ELSE IF get_indent(lines[i + 1]) # None
    THEN [post_indent |-> get_indent(lines[i + 1]), post_blank |-> post_blank]
    ELSE measure_post(lines, i + 1, post_blank + 1)

\* measure(lines, index) for 0 <= index <= len(lines)
measure(lines, index) ==
    LET pre == measure_pre(lines, index - 1, 0)
        post == measure_post(lines, index + 1, 0)
    IN  [end_of_hunk |-> index >= Len(lines),
         indent |-> IF index >= Len(lines) THEN None
                    ELSE get_indent(lines[index + 1]),
         pre_blank |-> pre.pre_blank, pre_indent |-> pre.pre_indent,
         post_blank |-> post.post_blank, post_indent |-> post.post_indent]

-----------------------------------------------------------------------------
(* SplitScorer3 (the DefaultSplitScorer) and SplitScore3                   *)

start_of_hunk_penalty == 1
end_of_hunk_penalty == 21
total_blank_weight == -30
post_blank_weight == 6
relative_indent_penalty == -4
relative_indent_with_blank_penalty == 10
relative_outdent_penalty == 24
relative_outdent_with_blank_penalty == 17
relative_dedent_penalty == 23
relative_dedent_with_blank_penalty == 17

SplitScore3(effective_indent, penalty) ==
    [effective_indent |-> effective_indent, penalty |-> penalty]

\* SplitScore3.__add__
ScoreAdd(a, b) ==
    SplitScore3(a.effective_indent + b.effective_indent, a.penalty + b.penalty)

\* SplitScore3.__le__
ScoreLe(a, b) ==
    LET cmp_indents ==
            (IF a.effective_indent > b.effective_indent THEN 1 ELSE 0)
            - (IF a.effective_indent < b.effective_indent THEN 1 ELSE 0)
    IN 60 * cmp_indents + (a.penalty - b.penalty) <= 0

\* an evaluate whose relative penalty compares the indent of the line itself
evaluate_own_indent(m) ==
    LET post_blank == IF m.indent = None THEN 1 + m.post_blank ELSE 0
        total_blank == m.pre_blank + post_blank
        indent == IF m.indent # None THEN m.indent ELSE m.post_indent
        p4 == IF m.indent = None \/ m.pre_indent = None THEN 0
              ELSE IF m.indent > m.pre_indent
              THEN (IF total_blank > 0 THEN relative_indent_with_blank_penalty
                    ELSE relative_indent_penalty)
              ELSE IF m.indent = m.pre_indent THEN 0
              ELSE IF m.post_indent = None \/ m.indent >= m.post_indent
              THEN (IF total_blank > 0 THEN relative_dedent_with_blank_penalty
                    ELSE relative_dedent_penalty)
              ELSE (IF total_blank > 0 THEN relative_outdent_with_blank_penalty
                    ELSE relative_outdent_penalty)
    IN SplitScore3(IF indent = None THEN -1 ELSE indent,
                   (IF m.pre_indent = None /\ m.pre_blank = 0
                    THEN start_of_hunk_penalty ELSE 0)
                   + (IF m.end_of_hunk THEN end_of_hunk_penalty ELSE 0)
                   + total_blank_weight * total_blank
                   + post_blank_weight * post_blank + p4)

\* SplitScorer3.evaluate
evaluate(m) ==
    LET p1 == IF m.pre_indent = None /\ m.pre_blank = 0
              THEN start_of_hunk_penalty ELSE 0
        p2 == IF m.end_of_hunk THEN end_of_hunk_penalty ELSE 0
        post_blank == IF m.indent = None THEN 1 + m.post_blank ELSE 0
        total_blank == m.pre_blank + post_blank
        p3 == total_blank_weight * total_blank + post_blank_weight * post_blank
        indent == IF m.indent # None THEN m.indent ELSE m.post_indent
        is_blank == m.pre_blank + post_blank # 0
        effective_indent == IF indent = None THEN -1 ELSE indent
        p4 == IF indent = None THEN 0
              ELSE IF m.pre_indent = None THEN 0
              ELSE IF indent > m.pre_indent
              THEN (IF is_blank THEN relative_indent_with_blank_penalty
                    ELSE relative_indent_penalty)
              ELSE IF indent = m.pre_indent THEN 0
              ELSE IF m.post_indent = None \/ indent >= m.post_indent
              THEN (IF is_blank THEN relative_dedent_with_blank_penalty
                    ELSE relative_dedent_penalty)
              ELSE (IF is_blank THEN relative_outdent_with_blank_penalty
                    ELSE relative_outdent_penalty)
    IN SplitScore3(effective_indent, p1 + p2 + p3 + p4)

-----------------------------------------------------------------------------
(* Slider                                                                  *)

Pre(h, s) == h[s.pre_context]
Chg(h, s) == h[s.change.difflines]
Post(h, s) == h[s.post_context]

\* range(start, stop) as a set, and len(range(start, stop))
RangeSet(r) == r.start .. (r.stop - 1)
RangeLen(r) == Max(r.stop - r.start, 0)

\* Slider.__getitem__(i), for -len(pre_context) <= i
SliderItem(h, s, i) == s.difflines[i + Len(Pre(h, s)) + 1]

\* Slider._compute_shift_range: the conditions of the two while loops
shift_min_cond_unguarded(h, s, shift_min) ==
    /\ Len(Pre(h, s)) + shift_min - 1 >= 0
    /\ SliderItem(h, s, shift_min - 1).line
         = SliderItem(h, s, Len(Chg(h, s)) + shift_min - 1).line

shift_min_cond(h, s, shift_min) ==
    /\ Len(Pre(h, s)) + shift_min - 1 >= 0
    /\ Len(Chg(h, s)) + shift_min - 1 >= 0
    /\ SliderItem(h, s, shift_min - 1).line
         = SliderItem(h, s, Len(Chg(h, s)) + shift_min - 1).line

shift_limit_cond(h, s, shift_limit) ==
    /\ shift_limit <= Len(Chg(h, s))
    /\ shift_limit <= Len(Post(h, s))
    /\ SliderItem(h, s, shift_limit - 1).line
         = SliderItem(h, s, Len(Chg(h, s)) + shift_limit - 1).line

\* Slider._compute_shift_range: the two while loops
RECURSIVE shift_min_loop(_, _, _)
shift_min_loop(h, s, shift_min) ==
    IF shift_min_cond(h, s, shift_min)
    THEN shift_min_loop(h, s, shift_min - 1)
    ELSE shift_min

RECURSIVE shift_limit_loop(_, _, _)
shift_limit_loop(h, s, shift_limit) ==
    IF shift_limit_cond(h, s, shift_limit)
    THEN shift_limit_loop(h, s, shift_limit + 1)
    ELSE shift_limit

compute_shift_range(h, s) ==
    [start |-> shift_min_loop(h, s, 0), stop |-> shift_limit_loop(h, s, 1)]

NoMeasurements == [split \in {} |-> 0]

\* Slider.__init__(pre_context, change, post_context, line_number), the
\* groups given as objects; exc is "AssertionError" when an assert fails
SliderInit(h, pre_context, change, post_context, line_number) ==
    LET difflines == h[pre_context] \o h[change.difflines] \o h[post_context]
        s0 == [pre_context |-> pre_context, change |-> change,
               post_context |-> post_context, difflines |-> difflines,
               line_number |-> line_number, prefix |-> change.prefix,
               shift_range |-> [start |-> 0, stop |-> 1],
               lines |-> LinesOf(difflines),
               measurements |-> NoMeasurements]
        shift_range == compute_shift_range(h, s0)
    IN  [exc |-> IF change.prefix \notin {"+", "-"} THEN "AssertionError"
                 ELSE IF RangeLen(shift_range) <= 1 THEN "AssertionError"
                 ELSE "none",
         slider |-> [s0 EXCEPT !.shift_range = shift_range]]

\* Slider.slide: self.shift_range = range(start - shift, stop - shift)
slide_range_plus(r, shift) == [start |-> r.start + shift, stop |-> r.stop + shift]
slide_range(r, shift) == [start |-> r.start - shift, stop |-> r.stop - shift]

\* Slider.slide(shift): the heap and the slider after the call
slide(h, s, shift) ==
    LET c == s.change
        sideId == IF c.prefix = "-" THEN c.deletes ELSE c.adds
        Re(prefix, ds) == [k \in 1..Len(ds) |-> DiffLine(prefix, ds[k].line)]
        \* shift < 0
        upA == Re(" ", Tail_(h[c.difflines], shift))
        up1 == [h EXCEPT ![c.difflines] = Front_(@, shift)]
        up2 == [up1 EXCEPT ![s.post_context] = upA \o @]
        upB == Re(c.prefix, Tail_(up2[s.pre_context], shift))
        up3 == [up2 EXCEPT ![s.pre_context] = Front_(@, shift)]
        up4 == [up3 EXCEPT ![c.difflines] = upB \o @]
        up5 == [up4 EXCEPT ![sideId] = upB \o @]
        \* shift > 0
        dnA == Re(" ", Slice(h[c.difflines], 0, shift))
        dn1 == [h EXCEPT ![c.difflines] = Slice(@, shift, Len(@))]
        dn2 == [dn1 EXCEPT ![s.pre_context] = @ \o dnA]
        dnB == Re(c.prefix, Slice(dn2[s.post_context], 0, shift))
        dn3 == [dn2 EXCEPT ![s.post_context] = Slice(@, shift, Len(@))]
        dn4 == [dn3 EXCEPT ![c.difflines] = @ \o dnB]
        dn5 == [dn4 EXCEPT ![sideId] = @ \o dnB]
    IN  IF shift = 0 THEN [heap |-> h, slider |-> s]
        ELSE [heap |-> IF shift < 0 THEN up5 ELSE dn5,
              slider |-> [s EXCEPT
                  !.shift_range = slide_range(s.shift_range, shift),
                  !.line_number = s.line_number + shift,
                  !.measurements = NoMeasurements]]

\* Slider.measure(split): the measurement and the cache after the call
slider_measure(h, s, cache, split) ==
    IF split \in DOMAIN cache
    THEN [m |-> cache[split], cache |-> cache]
    ELSE LET m == measure(s.lines, split + Len(Pre(h, s)))
         IN [m |-> m, cache |-> (split :> m) @@ cache]

\* Slider.get_score(scorer, shift)
get_score(h, s, cache, shift) ==
    LET split1 == shift
        split2 == shift + Len(Chg(h, s))
        m1 == slider_measure(h, s, cache, split1)
        m2 == slider_measure(h, s, m1.cache, split2)
    IN  IF ~(-Len(Pre(h, s)) <= split1) THEN
            [exc |-> "AssertionError", score |-> SplitScore3(0, 0), cache |-> cache]
        ELSE IF ~(split2 <= Len(Chg(h, s)) + Len(Post(h, s))) THEN
            [exc |-> "AssertionError", score |-> SplitScore3(0, 0), cache |-> cache]
        ELSE [exc |-> "none", score |-> ScoreAdd(evaluate(m1.m), evaluate(m2.m)),
              cache |-> m2.cache]

\* Slider.find_best_shift: best_score is None or score <= best_score
accepts_strict(score, best) ==
    best.none \/ (ScoreLe(score, best.score) /\ ~ScoreLe(best.score, score))
accepts(score, best) == best.none \/ ScoreLe(score, best.score)

\* the for loop of Slider.find_best_shift, from shift on; best.none says
\* that best_score is None: no shift has been scored yet
RECURSIVE find_best_loop(_, _, _, _, _)
find_best_loop(h, s, cache, shift, best) ==
    IF shift >= s.shift_range.stop
    THEN [exc |-> "none", ret |-> best.shift, cache |-> cache]
    ELSE LET g == get_score(h, s, cache, shift)
         IN IF g.exc # "none" THEN [exc |-> g.exc, ret |-> 0, cache |-> g.cache]
            ELSE IF accepts(g.score, best)
            THEN find_best_loop(h, s, g.cache, shift + 1,
                                [shift |-> shift, none |-> FALSE, score |-> g.score])
            ELSE find_best_loop(h, s, g.cache, shift + 1, best)

\* Slider.find_best_shift(scorer)
find_best_shift(h, s) ==
    IF RangeLen(s.shift_range) = 1
    THEN [exc |-> "none", ret |-> s.shift_range.start, cache |-> s.measurements]
    ELSE find_best_loop(h, s, s.measurements, s.shift_range.start,
                        [shift |-> 0, none |-> TRUE, score |-> SplitScore3(0, 0)])

\* Slider.shift_canonically(): the value returned, the heap and the slider
shift_canonically_stop(h, s) ==
    LET max_shift == s.shift_range.stop
        r == slide(h, s, max_shift)
    IN [ret |-> -max_shift, heap |-> r.heap, slider |-> r.slider]

shift_canonically(h, s) ==
    LET max_shift == s.shift_range.stop - 1
        r == slide(h, s, max_shift)
    IN [ret |-> -max_shift, heap |-> r.heap, slider |-> r.slider]

-----------------------------------------------------------------------------
(* Hunk.iter_sliders.  i is the index of a change group in hunk.groups,    *)
(* counted from 0 as in the code; groups[i + 1] is that group here.        *)

IterSlidersRange(hk) == {i \in 1..(Len(hk.groups) - 2) : i % 2 = 1}

\* whether the loop body reaches its yield for group i
IterSlidersYields_any_prefix(h, hk, i) ==
    LET pre_group == h[hk.groups[i].difflines]
        change == hk.groups[i + 1]
        cd == h[change.difflines]
        post_group == h[hk.groups[i + 2].difflines]
    IN  \/ pre_group # <<>> /\ pre_group[Len(pre_group)].line = cd[Len(cd)].line
        \/ post_group # <<>> /\ post_group[1].line = cd[1].line

IterSlidersYields(h, hk, i) ==
    LET pre_group == h[hk.groups[i].difflines]
        change == hk.groups[i + 1]
        cd == h[change.difflines]
        post_group == h[hk.groups[i + 2].difflines]
    IN  /\ change.prefix \in {"-", "+"}
        /\ \/ pre_group # <<>> /\ pre_group[Len(pre_group)].line = cd[Len(cd)].line
           \/ post_group # <<>> /\ post_group[1].line = cd[1].line

\* selector(group) for the change group i
selector(h, hk, i, g) ==
    IF hk.groups[i + 1].prefix = "-" THEN old_lines(GroupVal(h, g))
    ELSE new_lines(GroupVal(h, g))

\* pre_lines and post_lines: "use all of the lines in the hunk as context"
pre_lines(h, hk, i) ==
    Flatten([k \in 1..i |-> selector(h, hk, i, hk.groups[k])])
post_lines(h, hk, i) ==
    Flatten([k \in 1..(Len(hk.groups) - i - 1) |->
                selector(h, hk, i, hk.groups[i + 1 + k])])

\* the Slider(...) expression of the yield: Context(pre_lines),
\* Change(change.difflines), Context(post_lines), line_number
IterSlidersYield(h, hk, i) ==
    LET change == hk.groups[i + 1]
        reference_line == IF change.prefix = "-" THEN hk.old_line ELSE hk.new_line
        line_number == reference_line + Len(pre_lines(h, hk, i))
        a1 == ListNew(h, pre_lines(h, hk, i))
        a2 == ListCopy(a1.heap, change.difflines)
        cv == Change(a2.heap[a2.id])
        a3 == ListNew(a2.heap, cv.deletes)
        a4 == ListNew(a3.heap, cv.adds)
        a5 == ListNew(a4.heap, post_lines(h, hk, i))
        c == [difflines |-> a2.id, deletes |-> a3.id, adds |-> a4.id,
              prefix |-> cv.prefix]
        r == SliderInit(a5.heap, a1.id, c, a5.id, line_number)
    IN  [exc |-> r.exc, heap |-> a5.heap, slider |-> r.slider]

-----------------------------------------------------------------------------
(* FileDiff: the envelope of a file section.  i counts lines from 0 as in  *)
(* the code; lines[i + 1] is that line here.                               *)

\* [0-9a-f] and [0-7]
HexChars == {"0", "1", "2", "3", "4", "5", "6", "7", "8", "9",
             "a", "b", "c", "d", "e", "f"}
OctalChars == {"0", "1", "2", "3", "4", "5", "6", "7"}

\* the position after the longest run of characters of a class from p on
RECURSIVE RunEnd(_, _, _)
RunEnd(line, p, class) ==
    IF p <= Len(line) /\ line[p] \in class THEN RunEnd(line, p + 1, class) ELSE p

\* FileDiff.INDEX_RE.match(line): ^index [0-9a-f]+\.\.[0-9a-f]+ [0-7]+$
INDEX_RE(line) ==
    LET e1 == RunEnd(line, 7, HexChars)
        e2 == RunEnd(line, e1 + 2, HexChars)
        e3 == RunEnd(line, e2 + 1, OctalChars)
    IN  /\ StartsWith(line, <<"i", "n", "d", "e", "x", " ">>)
        /\ e1 > 7
        /\ e1 + 1 <= Len(line) /\ line[e1] = "." /\ line[e1 + 1] = "."
        /\ e2 > e1 + 2
        /\ e2 <= Len(line) /\ line[e2] = " "
        /\ e3 > e2 + 1
        /\ e3 = Len(line) + 1

\* the characters shlex.quote leaves alone: [\w@%+=:,./-], ASCII
SafeChars ==
    {"a", "b", "c", "d", "e", "f", "g", "h", "i", "j", "k", "l", "m",
     "n", "o", "p", "q", "r", "s", "t", "u", "v", "w", "x", "y", "z",
     "A", "B", "C", "D", "E", "F", "G", "H", "I", "J", "K", "L", "M",
     "N", "O", "P", "Q", "R", "S", "T", "U", "V", "W", "X", "Y", "Z",
     "0", "1", "2", "3", "4", "5", "6", "7", "8", "9", "_", "@", "%",
     "+", "=", ":", ",", ".", "/", "-"}

\* shlex.quote(f) == f for what get_filename returned; None and the empty
\* string are quoted as ''
IsShellSafe(f) ==
    /\ ~f.is_none
    /\ f.filename # <<>>
    /\ \A k \in 1..Len(f.filename) : f.filename[k] \in SafeChars

\* FileDiff.get_filename(file_re, line) for OLD_FILE_RE (sign "-", side "a")
\* and NEW_FILE_RE (sign "+", side "b"); is_none says that the group
\* 'filename' did not take part in the match, so that None is returned
get_filename(sign, side, line) ==
    IF line = <<sign, sign, sign>> \o <<" ", "/", "d", "e", "v", "/", "n", "u", "l", "l">>
    THEN [exc |-> "none", is_none |-> TRUE, filename |-> <<>>]
    ELSE IF StartsWith(line, <<sign, sign, sign, " ", side, "/">>)
    THEN [exc |-> "none", is_none |-> FALSE, filename |-> SubSeq(line, 7, Len(line))]
    ELSE [exc |-> "ParsingError", is_none |-> TRUE, filename |-> <<>>]

\* while not lines[i].startswith('diff '): the index of the diff line, or
\* None when there is none
RECURSIVE FindDiffLine(_, _)
FindDiffLine(lines, i) ==
    IF StartsWith(lines[i + 1], <<"d", "i", "f", "f", " ">>) THEN i
    ELSE IF i + 1 >= Len(lines) THEN None
    ELSE FindDiffLine(lines, i + 1)

\* while i < len(lines) and lines[i].startswith('rename ')
RECURSIVE SkipRenames(_, _)
SkipRenames(lines, i) ==
    IF i < Len(lines) /\ StartsWith(lines[i + 1], <<"r", "e", "n", "a", "m", "e", " ">>)
    THEN SkipRenames(lines, i + 1)
    ELSE i

\* while i < len(lines) and not lines[i].startswith('@@ ')
RECURSIVE HunkEnd(_, _)
HunkEnd(lines, i) ==
    IF i < Len(lines) /\ ~StartsWith(lines[i + 1], <<"@", "@", " ">>)
    THEN HunkEnd(lines, i + 1)
    ELSE i

FileDiffRaises(exc) == [exc |-> exc, hunks |-> <<>>, skipped |-> 0, has_sha1 |-> FALSE]

\* the loop over the hunks of FileDiff.__init__: a ParsingError of Hunk is
\* written to stderr and the hunk skipped, any other exception goes on
RECURSIVE FileDiffHunks(_, _, _, _)
FileDiffHunks(lines, i, hunks, skipped) ==
    IF i >= Len(lines)
    THEN [exc |-> "none", hunks |-> hunks, skipped |-> skipped, has_sha1 |-> TRUE]
    ELSE IF ~StartsWith(lines[i + 1], <<"@", "@", " ">>)
    THEN FileDiffRaises("AssertionError")
    ELSE LET end == HunkEnd(lines, i + 1)
             hk == Hunk(Slice(lines, i, end))
         IN IF hk.exc = "ParsingError"
            THEN FileDiffHunks(lines, end, hunks, skipped + 1)
            ELSE IF hk.exc # "none" THEN FileDiffRaises(hk.exc)
            ELSE FileDiffHunks(lines, end, Append(hunks, hk), skipped)

\* FileDiff(lines): exc names the exception raised; has_sha1 says whether
\* old_sha1 and new_sha1 were set
FileDiff(lines) ==
    LET d == FindDiffLine(lines, 0)
        i1 == d + 1
        i2 == IF StartsWith(lines[i1 + 1], <<"s", "i", "m", "i", "l", "a", "r", "i", "t", "y", " ">>)
              THEN SkipRenames(lines, i1 + 1) ELSE i1
        i3 == IF /\ i2 < Len(lines)
                 /\ \/ StartsWith(lines[i2 + 1], <<"n", "e", "w", " ">>)
                    \/ StartsWith(lines[i2 + 1], <<"d", "e", "l", "e", "t", "e", "d", " ">>)
              THEN i2 + 1 ELSE i2
        i4 == i3 + 1
        old == get_filename("-", "a", lines[i4 + 1])
        i5 == i4 + 1
        new == get_filename("+", "b", lines[i5 + 1])
        i6 == i5 + 1
    IN  IF lines = <<>> THEN FileDiffRaises("ParsingError")
        ELSE IF d = None THEN FileDiffRaises("ParsingError")
        ELSE IF i1 >= Len(lines) THEN FileDiffRaises("IndexError")
        ELSE IF i3 >= Len(lines) THEN FileDiffRaises("none")
        ELSE IF ~INDEX_RE(lines[i3 + 1]) THEN FileDiffRaises("none")
        ELSE IF i4 < Len(lines) /\ StartsWith(lines[i4 + 1], <<"B", "i", "n", "a", "r", "y", " ", "f", "i", "l", "e", "s", " ">>)
        THEN [exc |-> "none", hunks |-> <<>>, skipped |-> 0, has_sha1 |-> TRUE]
        ELSE IF i4 >= Len(lines) THEN FileDiffRaises("IndexError")
        ELSE IF old.exc # "none" THEN FileDiffRaises(old.exc)
        ELSE IF ~IsShellSafe(old) THEN FileDiffRaises("ParsingError")
        ELSE IF i5 >= Len(lines) THEN FileDiffRaises("IndexError")
        ELSE IF new.exc # "none" THEN FileDiffRaises(new.exc)
        ELSE IF ~IsShellSafe(new) THEN FileDiffRaises("ParsingError")
        ELSE FileDiffHunks(lines, i6, <<>>, 0)

-----------------------------------------------------------------------------
(* iter_file_diffs                                                         *)

\* while i < len(lines) and not lines[i].startswith('diff ')
RECURSIVE SectionEnd(_, _)
SectionEnd(lines, i) ==
    IF i < Len(lines) /\ ~StartsWith(lines[i + 1], <<"d", "i", "f", "f", " ">>)
    THEN SectionEnd(lines, i + 1)
    ELSE i

\* the generator iter_file_diffs(lines) after FileDiff(lines[start:end]) has
\* returned or raised fd: a ParsingError is written to stderr and the loop
\* goes on, another exception ends the generator, a FileDiff is yielded
RECURSIVE iter_file_diffs_next(_, _)
iter_file_diffs_section(lines, start, end, fd) ==
    IF fd.exc = "ParsingError" THEN iter_file_diffs_next(lines, end)
    ELSE [exc |-> fd.exc, i |-> end, start |-> start, filediff |-> fd]

iter_file_diffs_at(lines, start, end) ==
    iter_file_diffs_section(lines, start, end, FileDiff(Slice(lines, start, end)))

\* one next() of the generator iter_file_diffs(lines) that stands at line i:
\* it yields the FileDiff of the section that starts at line start (exc is
\* "none"), or is exhausted ("StopIteration"), or raises
iter_file_diffs_next(lines, i) ==
    IF i >= Len(lines)
    THEN [exc |-> "StopIteration", i |-> i, start |-> i,
          filediff |-> FileDiffRaises("none")]
    ELSE IF ~StartsWith(lines[i + 1], <<"d", "i", "f", "f", " ">>)
    THEN [exc |-> "AssertionError", i |-> i, start |-> i,
          filediff |-> FileDiffRaises("none")]
    ELSE iter_file_diffs_at(lines, i, SectionEnd(lines, i + 1))

-----------------------------------------------------------------------------
(* iter_shifts                                                             *)

RECURSIVE SkipSpace(_, _)
SkipSpace(line, p) ==
    IF p <= Len(line) /\ IsSpace(line[p]) THEN SkipSpace(line, p + 1) ELSE p

\* COMMENT_RE.match(line): whitespace only, or whitespace and a '#' comment
COMMENT_RE(line) ==
    LET p == SkipSpace(line, 1)
    IN  p > Len(line) \/ line[p] = "#"

\* line.split(): the maximal runs of characters that are not whitespace
RECURSIVE split_loop(_, _, _, _)
split_loop(line, p, word, words) ==
    IF p > Len(line)
    THEN IF word = <<>> THEN words ELSE Append(words, word)
    ELSE IF IsSpace(line[p])
    THEN split_loop(line, p + 1, <<>>,
                    IF word = <<>> THEN words ELSE Append(words, word))
    ELSE split_loop(line, p + 1, Append(word, line[p]), words)

split(line) == split_loop(line, 1, <<>>, <<>>)

\* int(word) of a word without whitespace: an optional sign and decimal
\* digits, ValueError for anything else
int_digits(word) ==
    IF word # <<>> /\ word[1] \in {"+", "-"} THEN Tail(word) ELSE word

int(word) ==
    IF /\ int_digits(word) # <<>>
       /\ \A k \in 1..Len(int_digits(word)) : IsDigit(int_digits(word)[k])
    THEN [exc |-> "none",
          val |-> IF word[1] = "-" THEN 0 - IntOf(int_digits(word))
                  ELSE IntOf(int_digits(word))]
    ELSE [exc |-> "ValueError", val |-> 0]

\* [int(shift) for shift in shifts]
RECURSIVE int_shifts(_, _, _)
int_shifts(shifts, k, ret) ==
    IF k > Len(shifts) THEN [exc |-> "none", val |-> ret]
    ELSE IF int(shifts[k]).exc # "none" THEN [exc |-> int(shifts[k]).exc, val |-> ret]
    ELSE int_shifts(shifts, k + 1, Append(ret, int(shifts[k]).val))

NoShifts == [old |-> <<>>, new |-> <<>>, prefix |-> <<>>, line_number |-> 0,
             shifts |-> <<>>]

\* the body of the loop of iter_shifts for a line that is not a comment
iter_shifts_words(words, i) ==
    IF Len(words) < 4
    THEN [exc |-> "ParsingError", i |-> i, value |-> NoShifts]
    ELSE IF int(words[4]).exc = "ValueError"
    THEN [exc |-> "ParsingError", i |-> i, value |-> NoShifts]
    ELSE IF int_shifts(Slice(words, 4, Len(words)), 1, <<>>).exc # "none"
    THEN [exc |-> int_shifts(Slice(words, 4, Len(words)), 1, <<>>).exc,
          i |-> i, value |-> NoShifts]
    ELSE [exc |-> "none", i |-> i,
          value |-> [old |-> words[1], new |-> words[2], prefix |-> words[3],
                     line_number |-> int(words[4]).val,
                     shifts |-> int_shifts(Slice(words, 4, Len(words)), 1, <<>>).val]]

\* one next() of the generator iter_shifts(lines) that has consumed i lines
RECURSIVE iter_shifts_next(_, _)
iter_shifts_next(lines, i) ==
    IF i >= Len(lines)
    THEN [exc |-> "StopIteration", i |-> i, value |-> NoShifts]
    ELSE IF COMMENT_RE(lines[i + 1])
    THEN iter_shifts_next(lines, i + 1)
    ELSE iter_shifts_words(split(Rstrip(lines[i + 1])), i + 1)

-----------------------------------------------------------------------------
(* The inputs drawn.                                                       *)

\* texts of the hunks drawn with free prefixes
BodyTexts == {<<"x">>, <<" ", "x">>}

\* texts of the one-change hunks: a blank line, and indents 0 and 1
ScoreTexts == {<<>>, <<"x">>, <<" ", "x">>}

Header1 == <<"@", "@", " ", "-", "1", " ", "+", "2", " ", "@", "@">>

SeqsUpTo(S, n) == UNION {[1..k -> S] : k \in 0..n}

WithPrefix(prefix, texts) == [k \in 1..Len(texts) |-> <<prefix>> \o texts[k]]

BodyLines(prefixes) == {<<p>> \o t : p \in prefixes, t \in BodyTexts}

\* the lines of the file sections drawn
DiffLine1 == <<"d", "i", "f", "f", " ", "x">>
PrologueLines == {<<"s", "i", "m", "i", "l", "a", "r", "i", "t", "y", " ", "9">>,
                  <<"r", "e", "n", "a", "m", "e", " ", "x">>,
                  <<"n", "e", "w", " ", "x">>}
IndexLines == {<<"i", "n", "d", "e", "x", " ", "1", ".", ".", "2", " ", "7">>,
               <<"i", "n", "d", "e", "x", " ", "1", ".", ".", "2">>}
FileLines == {<<"-", "-", "-", " ", "a", "/", "x">>,
              <<"-", "-", "-", " ", "/", "d", "e", "v", "/", "n", "u", "l", "l">>,
              <<"-", "-", "-", " ", "a", "/", "$">>,
              <<"+", "+", "+", " ", "b", "/", "x">>,
              <<"B", "i", "n", "a", "r", "y", " ", "f", "i", "l", "e", "s", " ", "x">>}
HunkLines == {Header1, <<"@", "@", " ", "x">>, <<"+", "x">>, <<>>}


\* the file sections drawn: a section with a hunk, a Binary files section,
\* a filename with a space, a section that ends after its diff line, one
\* that ends after its index line, an index line that does not match, and
\* a body line where a hunk must start
IndexLine1 == <<"i", "n", "d", "e", "x", " ", "1", ".", ".", "2", " ", "7">>
OldFileLine1 == <<"-", "-", "-", " ", "a", "/", "x">>
NewFileLine1 == <<"+", "+", "+", " ", "b", "/", "x">>
Sections ==
    {<<DiffLine1, IndexLine1, OldFileLine1, NewFileLine1, Header1, <<"+", "x">>>>,
     <<DiffLine1, IndexLine1, <<"B", "i", "n", "a", "r", "y", " ", "f", "i", "l", "e", "s", " ", "x">>>>,
     <<DiffLine1, IndexLine1, <<"-", "-", "-", " ", "a", "/", "x", " ", "y">>,
       NewFileLine1, Header1, <<"+", "x">>>>,
     <<DiffLine1>>,
     <<DiffLine1, IndexLine1>>,
     <<DiffLine1, <<"i", "n", "d", "e", "x", " ", "1", ".", ".", "2">>>>,
     <<DiffLine1, IndexLine1, OldFileLine1, NewFileLine1, <<"+", "x">>>>}


\* the hunks drawn for a section: two well-formed hunks, a header that
\* does not match, an empty body line, a body of one line of unknown
\* prefix, and such a line after a '+' line
Envelope1 == <<DiffLine1, IndexLine1, OldFileLine1, NewFileLine1>>
Hunks ==
    {<<Header1, <<"+", "x">>>>,
     <<Header1, <<" ", "x">>, <<"-", "x">>>>,
     <<<<"@", "@", " ", "x">>, <<"+", "x">>>>,
     <<Header1, <<>>>>,
     <<Header1, <<"x", "y">>>>,
     <<Header1, <<"+", "x">>, <<"x", "y">>>>}

\* the lines read by iter_shifts: up to MaxWords words joined by blanks,
\* comment lines, and a line with more whitespace around its words
ShiftWords == {<<"x">>, <<"-", "1", "2">>}

RECURSIVE JoinWords(_)
JoinWords(words) ==
    IF words = <<>> THEN <<>>
    ELSE IF Len(words) = 1 THEN words[1]
    ELSE words[1] \o <<" ">> \o JoinWords(Tail(words))

ShiftLines ==
    {JoinWords(words) : words \in SeqsUpTo(ShiftWords, MaxWords)}
    \cup {<<" ", "\t">>, <<"#", "x">>, <<" ", "#", " ", "1">>,
          <<" ", "x", "\t", "x", " ", " ", "x", " ", "+", "7", " ", "0", " ">>,
          <<"x", " ", "x", " ", "x", " ", "1", " ", "#">>}

\* texts of the line arrays given to measure: blank lines, and lines of
\* indent 0, 1 and 8
MeasureTexts == {<<>>, <<" ">>, <<"x">>, <<" ", "x">>, <<"\t", "x">>}

-----------------------------------------------------------------------------
(* The state machine of one hunk and one slider of it.                     *)

NoHunk == [old_line |-> 0, new_line |-> 0, difflines |-> <<>>, groups |-> <<>>]

NoSlider ==
    [pre_context |-> 0, change |-> [difflines |-> 0, deletes |-> 0, adds |-> 0,
                                    prefix |-> " "],
     post_context |-> 0, difflines |-> <<>>, line_number |-> 0, prefix |-> " ",
     shift_range |-> [start |-> 0, stop |-> 0], lines |-> <<>>,
     measurements |-> NoMeasurements]

NoSnapshot ==
    [pre |-> <<>>, change |-> <<>>, post |-> <<>>, deletes |-> <<>>,
     adds |-> <<>>, line_number |-> 0, shift_range |-> [start |-> 0, stop |-> 0]]

\* the slider's groups, line number and shift range by value
Snapshot(h, s) ==
    [pre |-> Pre(h, s), change |-> Chg(h, s), post |-> Post(h, s),
     deletes |-> h[s.change.deletes], adds |-> h[s.change.adds],
     line_number |-> s.line_number, shift_range |-> s.shift_range]

NoLast ==
    [op |-> "none", shift |-> 0, ret |-> 0, exc |-> "none", group |-> 0,
     before |-> NoSnapshot, original |-> NoSnapshot]

NoFileDiff == [hunks |-> <<>>, skipped |-> 0, has_sha1 |-> FALSE]

NoResult == [kind |-> "none"]

Start(lines) ==
    /\ pc = "lines"
    /\ input = lines
    /\ hunk = NoHunk
    /\ heap = <<>>
    /\ slider = NoSlider
    /\ last = NoLast
    /\ nslides = 0
    /\ filediff = NoFileDiff
    /\ result = NoResult

\* any hunk body of at most MaxBody lines with prefixes ' ', '+', '-'
Init ==
    \E body \in SeqsUpTo(BodyLines({" ", "+", "-"}), MaxBody) :
        Start(<<Header1>> \o body)

\* any hunk body of at most MaxGroupsBody lines, '\' lines included
InitGroups ==
    \E body \in SeqsUpTo(BodyLines({" ", "+", "-", "\\"}), MaxGroupsBody) :
        Start(<<Header1>> \o body)

\* hunks of one single-sided change between two contexts
InitScore ==
    \E prefix \in {"+", "-"} :
        \E pre \in SeqsUpTo(ScoreTexts, MaxPre) :
            \E change \in SeqsUpTo(ScoreTexts, MaxChange) \ {<<>>} :
                \E post \in SeqsUpTo(ScoreTexts, MaxPost) :
                    Start(<<Header1>> \o WithPrefix(" ", pre)
                          \o WithPrefix(prefix, change) \o WithPrefix(" ", post))

\* hunk = Hunk(old_filename, new_filename, lines)
ParseHunk ==
    /\ pc = "lines"
    /\ LET hk == Hunk(input)
           a == AllocGroups(hk.groups, <<>>, <<>>)
       IN  /\ pc' = IF hk.exc = "none" THEN "hunk" ELSE hk.exc
           /\ hunk' = [old_line |-> hk.old_line, new_line |-> hk.new_line,
                       difflines |-> hk.difflines, groups |-> a.groups]
           /\ heap' = a.heap
    /\ UNCHANGED <<input, slider, last, nslides, filediff, result>>

\* for slider in hunk.iter_sliders(): the iteration that yields for group i
IterSliders(i) ==
    /\ pc = "hunk"
    /\ IterSlidersYields(heap, hunk, i)
    /\ LET y == IterSlidersYield(heap, hunk, i)
       IN  /\ pc' = IF y.exc = "none" THEN "slider" ELSE y.exc
           /\ heap' = y.heap
           /\ slider' = y.slider
           /\ last' = [NoLast EXCEPT !.op = "Slider", !.exc = y.exc, !.group = i,
                                     !.before = Snapshot(y.heap, y.slider),
                                     !.original = Snapshot(y.heap, y.slider)]
    /\ UNCHANGED <<input, hunk, nslides, filediff, result>>

\* slider.slide(shift) with shift in slider.shift_range
Slide(shift) ==
    /\ pc = "slider"
    /\ shift \in RangeSet(slider.shift_range)
    /\ shift # 0 => nslides < MaxSlides
    /\ LET r == slide(heap, slider, shift)
       IN  /\ heap' = r.heap
           /\ slider' = r.slider
    /\ last' = [last EXCEPT !.op = "slide", !.shift = shift, !.ret = 0,
                            !.exc = "none",
                            !.before = Snapshot(heap, slider)]
    /\ nslides' = IF shift = 0 THEN nslides ELSE nslides + 1
    /\ UNCHANGED <<pc, input, hunk, filediff, result>>

\* slider.shift_canonically()
ShiftCanonically ==
    /\ pc = "slider"
    /\ RangeLen(slider.shift_range) > 0
    /\ slider.shift_range.stop - 1 # 0 => nslides < MaxSlides
    /\ LET r == shift_canonically(heap, slider)
       IN  /\ heap' = r.heap
           /\ slider' = r.slider
           /\ last' = [last EXCEPT !.op = "shift_canonically",
                                   !.shift = slider.shift_range.stop - 1,
                                   !.ret = r.ret,
                                   !.exc = "none",
                                   !.before = Snapshot(heap, slider)]
    /\ nslides' = IF slider.shift_range.stop - 1 = 0 THEN nslides ELSE nslides + 1
    /\ UNCHANGED <<pc, input, hunk, filediff, result>>

\* slider.find_best_shift(DefaultSplitScorer())
FindBestShift ==
    /\ pc = "slider"
    /\ LET r == find_best_shift(heap, slider)
       IN  /\ slider' = [slider EXCEPT !.measurements = r.cache]
           /\ last' = [last EXCEPT !.op = "find_best_shift", !.shift = 0,
                                   !.ret = r.ret,
                                   !.exc = r.exc,
                                   !.before = Snapshot(heap, slider)]
    /\ UNCHANGED <<pc, input, hunk, heap, nslides, filediff, result>>

\* a hunk, a slider of it and any legal slides of the slider
Next ==
    \/ ParseHunk
    \/ \E i \in IterSlidersRange(hunk) : IterSliders(i)
    \/ \E shift \in RangeSet(slider.shift_range) : Slide(shift)
    \/ ShiftCanonically
    \/ FindBestShift

Spec == Init /\ [][Next]_vars

\* parsing a hunk
NextGroups == ParseHunk

SpecGroups == InitGroups /\ [][NextGroups]_vars

\* a hunk, a slider of it, its canonical shift and its best shift
NextScore ==
    \/ ParseHunk
    \/ \E i \in IterSlidersRange(hunk) : IterSliders(i)
    \/ ShiftCanonically
    \/ FindBestShift

SpecScore == InitScore /\ [][NextScore]_vars

-----------------------------------------------------------------------------
(* The state machine of one file section.                                   *)

\* a section as iter_file_diffs cuts it: a 'diff ' line, then lines that
\* are not 'diff ' lines
InitFile ==
    \E prologue \in SeqsUpTo(PrologueLines, MaxPrologue) :
        \E index \in SeqsUpTo(IndexLines, 1) :
            \E files \in SeqsUpTo(FileLines, MaxFileLines) :
                \E hunks \in SeqsUpTo(HunkLines, MaxHunkLines) :
                    /\ pc = "section"
                    /\ input = <<DiffLine1>> \o prologue \o index \o files \o hunks
                    /\ hunk = NoHunk
                    /\ heap = <<>>
                    /\ slider = NoSlider
                    /\ last = NoLast
                    /\ nslides = 0
                    /\ filediff = NoFileDiff
                    /\ result = NoResult

\* file_diff = FileDiff(lines)
ParseFileDiff ==
    /\ pc = "section"
    /\ LET fd == FileDiff(input)
       IN  /\ pc' = IF fd.exc = "none" THEN "filediff" ELSE fd.exc
           /\ filediff' = [hunks |-> fd.hunks, skipped |-> fd.skipped,
                           has_sha1 |-> fd.has_sha1]
    /\ UNCHANGED <<input, hunk, heap, slider, last, nslides, result>>

NextFile == ParseFileDiff

SpecFile == InitFile /\ [][NextFile]_vars

-----------------------------------------------------------------------------
(* Properties of Slider.slide and the shift range.                         *)

\* the texts of the slider's groups now and as constructed
OwnSide == LinesOf(Pre(heap, slider) \o Chg(heap, slider) \o Post(heap, slider))
OtherSide == LinesOf(Pre(heap, slider) \o Post(heap, slider))
OriginalOwnSide ==
    LinesOf(last.original.pre \o last.original.change \o last.original.post)
OriginalOtherSide == LinesOf(last.original.pre \o last.original.post)

\* C1: after any slides, each by a shift in shift_range at the time of the
\* call, the texts of pre_context, change, post_context in order, and the
\* texts of pre_context, post_context in order, are those of the slider as
\* constructed.
C1_SlidingPreservesContent ==
    pc = "slider" =>
        /\ OwnSide = OriginalOwnSide
        /\ OtherSide = OriginalOtherSide

\* the hunk's change group that the slider was built for
HunkChange == hunk.groups[last.group + 1]

\* the hunk's groups hold what iter_groups made of the hunk's lines
HunkAsParsed ==
    LET parsed == iter_groups(hunk.difflines)
    IN  /\ Len(hunk.groups) = Len(parsed)
        /\ \A k \in 1..Len(parsed) :
              LET g == GroupVal(heap, hunk.groups[k])
              IN  /\ g.kind = parsed[k].kind
                  /\ g.prefix = parsed[k].prefix
                  /\ g.difflines = parsed[k].difflines
                  /\ g.deletes = parsed[k].deletes
                  /\ g.adds = parsed[k].adds

LegalUp(pre, change, s) ==
    \A k \in s..(-1) :
        /\ Len(pre) + k >= 0
        /\ Len(change) + k >= 0
        /\ pre[Len(pre) + k + 1].line = change[Len(change) + k + 1].line

LegalDown(change, post, s) ==
    \A k \in 0..(s - 1) :
        /\ k < Len(change)
        /\ k < Len(post)
        /\ change[k + 1].line = post[k + 1].line

\* C3: the shift range of a slider as constructed holds 0, a shift s < 0 is
\* in it exactly when the last |s| lines of pre_context equal the last |s|
\* lines of the change, a shift s > 0 exactly when the first s lines of the
\* change equal the first s lines of post_context, and neither s_min - 1 nor
\* s_lim satisfies its condition.
C3_ShiftRangeIsLegalShifts ==
    (pc = "slider" /\ last.op = "Slider") =>
        LET pre == Pre(heap, slider)
            change == Chg(heap, slider)
            post == Post(heap, slider)
            r == slider.shift_range
            n == Len(pre) + Len(change) + Len(post) + 1
        IN  /\ 0 \in RangeSet(r)
            /\ \A s \in (-n)..(-1) : s \in RangeSet(r) <=> LegalUp(pre, change, s)
            /\ \A s \in 1..n : s \in RangeSet(r) <=> LegalDown(change, post, s)
            /\ ~LegalUp(pre, change, r.start - 1)
            /\ ~LegalDown(change, post, r.stop)

\* a slider as constructed that can slide both ways, up by less than its
\* pre_context allows lines for
C3_Witness ==
    /\ pc = "slider"
    /\ last.op = "Slider"
    /\ slider.shift_range.start < 0
    /\ slider.shift_range.stop > 1
    /\ Len(Pre(heap, slider)) > -slider.shift_range.start

\* C4: from construction on, through slide, shift_canonically and
\* find_best_shift, s_min <= 0 < s_lim.
C4_ZeroIsLegal ==
    pc = "slider" =>
        /\ slider.shift_range.start <= 0
        /\ 0 < slider.shift_range.stop

C4_Witness ==
    /\ pc = "slider"
    /\ last.op = "slide"
    /\ nslides = 2
    /\ slider.line_number # last.before.line_number
    /\ slider.shift_range.start < 0
    /\ slider.shift_range.stop > 1

\* C5: shift_canonically on a slider of range [s_min, s_lim) slides by
\* s_lim - 1 (line_number moves by as much), returns -(s_lim - 1), which is
\* never positive, and leaves the range [s_min - (s_lim - 1), 1); called
\* again where it has just returned, it returns 0 and leaves the groups,
\* line_number and shift_range as they are.
C5_Canonicalization ==
    (pc = "slider" /\ last.op = "shift_canonically") =>
        LET b == last.before
            max_shift == b.shift_range.stop - 1
            again == shift_canonically(heap, slider)
        IN  /\ last.ret = -max_shift
            /\ last.ret <= 0
            /\ slider.line_number = b.line_number + max_shift
            /\ slider.shift_range =
                   [start |-> b.shift_range.start - max_shift, stop |-> 1]
            /\ again.ret = 0
            /\ Snapshot(again.heap, again.slider) = Snapshot(heap, slider)

\* shift_canonically has run twice: once moving the slider, then on the
\* canonical slider
C5_Witness ==
    /\ pc = "slider"
    /\ last.op = "shift_canonically"
    /\ last.ret = 0
    /\ nslides > 0
    /\ last.before = Snapshot(heap, slider)
    /\ slider.line_number # last.original.line_number

-----------------------------------------------------------------------------
(* Properties of Hunk.iter_sliders and Hunk.iter_groups.                   *)

\* single-sided, and slidable by the contexts the slider would be given
SlidableBySliderContexts(h, hk, i) ==
    LET pre == pre_lines(h, hk, i)
        post == post_lines(h, hk, i)
        cd == h[hk.groups[i + 1].difflines]
    IN  /\ hk.groups[i + 1].prefix \in {"+", "-"}
        /\ \/ pre # <<>> /\ pre[Len(pre)].line = cd[Len(cd)].line
           \/ post # <<>> /\ post[1].line = cd[1].line

\* C8: iter_sliders yields a Slider for a change group exactly when the
\* change is single-sided and the last line of the slider's pre_context
\* equals the last change line or the first line of its post_context equals
\* the first change line; no assertion of the constructor fails for a
\* slider it builds.
C8_SlidersExactlySlidable ==
    pc = "hunk" =>
        \A i \in IterSlidersRange(hunk) :
            /\ IterSlidersYields(heap, hunk, i)
                   <=> SlidableBySliderContexts(heap, hunk, i)
            /\ IterSlidersYields(heap, hunk, i)
                   => IterSlidersYield(heap, hunk, i).exc = "none"

\* a slider built in a hunk that also holds a mixed change
C8_Witness ==
    /\ pc = "slider"
    /\ last.op = "Slider"
    /\ \E k \in 1..Len(hunk.groups) : hunk.groups[k].prefix = "?"

\* the lines of the parsed hunk that are not '\' lines
NoBackslash(d) == d.prefix # "\\"

\* C9: iter_groups yields, for any lines with prefixes ' ', '+', '-', '\',
\* an odd number of groups, Context and Change in turn from a Context to a
\* Context; a Change is non-empty and holds no ' ' line, a Context holds
\* only ' ' lines, no group holds a '\' line, and the groups concatenated
\* are the lines without the '\' lines.
C9_GroupsAlternate ==
    /\ pc \in {"lines", "hunk"}
    /\ pc = "hunk" =>
        LET gs == [k \in 1..Len(hunk.groups) |-> GroupVal(heap, hunk.groups[k])]
        IN  /\ Len(gs) % 2 = 1
            /\ \A k \in 1..Len(gs) :
                  /\ gs[k].kind = IF k % 2 = 1 THEN "Context" ELSE "Change"
                  /\ gs[k].kind = "Change" => gs[k].difflines # <<>>
                  /\ \A j \in 1..Len(gs[k].difflines) :
                        /\ gs[k].difflines[j].prefix # "\\"
                        /\ gs[k].kind = "Change" => gs[k].difflines[j].prefix # " "
                        /\ gs[k].kind = "Context" => gs[k].difflines[j].prefix = " "
            /\ Flatten([k \in 1..Len(gs) |-> gs[k].difflines])
                   = SelectSeq(hunk.difflines, NoBackslash)

\* a hunk that starts and ends with a change and holds a '\' line
C9_Witness ==
    /\ pc = "hunk"
    /\ Len(hunk.groups) >= 5
    /\ heap[hunk.groups[1].difflines] = <<>>
    /\ heap[hunk.groups[Len(hunk.groups)].difflines] = <<>>
    /\ \E k \in 1..Len(hunk.difflines) : hunk.difflines[k].prefix = "\\"

-----------------------------------------------------------------------------
(* Properties of Slider.find_best_shift under the default scorer.          *)

\* get_score(scorer, shift) of the current slider
ScoreOf(shift) == get_score(heap, slider, NoMeasurements, shift).score

\* find_best_shift has just returned a shift
BestShiftReturned ==
    /\ pc = "slider"
    /\ last.op = "find_best_shift"
    /\ last.exc = "none"

\* C6: find_best_shift returns a shift b of shift_range with
\* get_score(b) <= get_score(s), under the score's own <=, for every s of
\* shift_range.
C6_BestShiftIsMinimum ==
    BestShiftReturned =>
        /\ last.ret \in RangeSet(slider.shift_range)
        /\ \A s \in RangeSet(slider.shift_range) :
              ScoreLe(ScoreOf(last.ret), ScoreOf(s))

\* the shifts whose score is <= the score of every shift of the range
MinimalShifts ==
    {m \in RangeSet(slider.shift_range) :
        \A s \in RangeSet(slider.shift_range) : ScoreLe(ScoreOf(m), ScoreOf(s))}

\* C7 as stated: when several shifts have the same minimal score, the
\* largest of them is returned; when every shift scores the same, s_lim - 1.
C7_LargestOfSameMinimalScore ==
    BestShiftReturned =>
        /\ \A m \in MinimalShifts :
              LET same == {s \in RangeSet(slider.shift_range) :
                              ScoreOf(s) = ScoreOf(m)}
              IN  Cardinality(same) >= 2 =>
                      last.ret = CHOOSE b \in same : \A s \in same : s <= b
        /\ (\A s, t \in RangeSet(slider.shift_range) : ScoreOf(s) = ScoreOf(t))
              => last.ret = slider.shift_range.stop - 1

\* C7 amended: the shift returned is the last of the scan that the scan
\* accepts: it is in shift_range, no larger shift scores <= its score, and it
\* is the largest of the shifts that score the same as it does; when every
\* shift scores the same, it is s_lim - 1.
C7_LargestAccepted ==
    BestShiftReturned =>
        /\ last.ret \in RangeSet(slider.shift_range)
        /\ \A s \in RangeSet(slider.shift_range) :
              s > last.ret => ~ScoreLe(ScoreOf(s), ScoreOf(last.ret))
        /\ \A s \in RangeSet(slider.shift_range) :
              ScoreOf(s) = ScoreOf(last.ret) => s <= last.ret
        /\ (\A s, t \in RangeSet(slider.shift_range) : ScoreOf(s) = ScoreOf(t))
              => last.ret = slider.shift_range.stop - 1

\* find_best_shift has returned the largest of two or more shifts of one
\* score, on a range where not every shift scores the same
C7_Witness ==
    /\ BestShiftReturned
    /\ \E s \in RangeSet(slider.shift_range) :
          s < last.ret /\ ScoreOf(s) = ScoreOf(last.ret)
    /\ \E s \in RangeSet(slider.shift_range) : ScoreOf(s) # ScoreOf(last.ret)

-----------------------------------------------------------------------------
(* Properties of FileDiff.                                                 *)

\* a filename line of the grammar: /dev/null, or a path safe for the shell
FilenameLineOk(sign, side, line) ==
    LET f == get_filename(sign, side, line)
    IN  f.exc = "none" /\ (f.is_none \/ IsShellSafe(f))

\* the section follows the envelope grammar up to its first hunk: the diff
\* line, similarity and rename lines, a new or deleted line, an index line
\* that matches, then a Binary files line, or the two filename lines and,
\* if a line follows them, an '@@ ' line
FollowsEnvelope(lines) ==
    LET n == Len(lines)
        i2 == IF 1 < n /\ StartsWith(lines[2], <<"s", "i", "m", "i", "l", "a", "r", "i", "t", "y", " ">>)
              THEN SkipRenames(lines, 2) ELSE 1
        i3 == IF /\ i2 < n
                 /\ \/ StartsWith(lines[i2 + 1], <<"n", "e", "w", " ">>)
                    \/ StartsWith(lines[i2 + 1], <<"d", "e", "l", "e", "t", "e", "d", " ">>)
              THEN i2 + 1 ELSE i2
    IN  /\ StartsWith(lines[1], <<"d", "i", "f", "f", " ">>)
        /\ i3 < n
        /\ INDEX_RE(lines[i3 + 1])
        /\ \/ i3 + 1 < n /\ StartsWith(lines[i3 + 2], <<"B", "i", "n", "a", "r", "y", " ", "f", "i", "l", "e", "s", " ">>)
           \/ /\ i3 + 2 < n
              /\ FilenameLineOk("-", "a", lines[i3 + 2])
              /\ FilenameLineOk("+", "b", lines[i3 + 3])
              /\ i3 + 3 < n => StartsWith(lines[i3 + 4], <<"@", "@", " ">>)

\* FileDiff(input) has returned or raised
FileDiffDone == pc \notin {"section", "lines", "hunk", "slider"}

\* C10: constructing FileDiff for a section that does not follow the
\* envelope grammar raises ParsingError: it neither returns a FileDiff nor
\* raises another exception.
C10_EnvelopeFailureIsParsingError ==
    (FileDiffDone /\ StartsWith(input[1], <<"d", "i", "f", "f", " ">>) /\ ~FollowsEnvelope(input))
        => pc = "ParsingError"

-----------------------------------------------------------------------------
(* The state machine of iter_file_diffs over several file sections.        *)

InitFiles ==
    \E secs \in SeqsUpTo(Sections, MaxSections) :
        /\ pc = "sections"
        /\ input = Flatten(secs)
        /\ hunk = NoHunk
        /\ heap = <<>>
        /\ slider = NoSlider
        /\ last = NoLast
        /\ nslides = 0
        /\ filediff = NoFileDiff
        /\ result = [kind |-> "iter_file_diffs", i |-> 0, yielded |-> <<>>]

\* the state after a next() of the generator that gave r
AfterNextFileDiff(r) ==
    /\ pc' = IF r.exc = "none" THEN "sections"
             ELSE IF r.exc = "StopIteration" THEN "done"
             ELSE r.exc
    /\ result' = [result EXCEPT
           !.i = r.i,
           !.yielded = IF r.exc = "none"
                       THEN Append(@, [start |-> r.start,
                                       hunks |-> r.filediff.hunks,
                                       has_sha1 |-> r.filediff.has_sha1])
                       ELSE @]

\* for file_diff in iter_file_diffs(lines): one iteration
NextFileDiff ==
    /\ pc = "sections"
    /\ AfterNextFileDiff(iter_file_diffs_next(input, result.i))
    /\ UNCHANGED <<input, hunk, heap, slider, last, nslides, filediff>>

NextFiles == NextFileDiff

SpecFiles == InitFiles /\ [][NextFiles]_vars

\* the lines at which the sections of the input start, and a section
SectionStarts(lines) == {i \in 0..(Len(lines) - 1) : StartsWith(lines[i + 1], <<"d", "i", "f", "f", " ">>)}
SectionAt(lines, i) == Slice(lines, i, SectionEnd(lines, i + 1))
YieldedStarts == {result.yielded[k].start : k \in 1..Len(result.yielded)}

\* C11: when the iteration of iter_file_diffs is over, no FileDiff was
\* yielded for a section that does not follow the envelope, every section
\* after such a section that FileDiff accepts was yielded, and the FileDiffs
\* were yielded in input order.
C11_PerFileRecovery ==
    (result.kind = "iter_file_diffs" /\ pc # "sections") =>
        /\ \A k \in SectionStarts(input) :
              ~FollowsEnvelope(SectionAt(input, k)) =>
                  /\ k \notin YieldedStarts
                  /\ \A j \in SectionStarts(input) :
                        (j > k /\ FileDiff(SectionAt(input, j)).exc = "none")
                            => j \in YieldedStarts
        /\ \A a, b \in 1..Len(result.yielded) :
              a < b => result.yielded[a].start < result.yielded[b].start

-----------------------------------------------------------------------------
(* The state machine of one file section of several hunks.                 *)

InitHunks ==
    \E hunks \in SeqsUpTo(Hunks, MaxHunks) :
        /\ pc = "section"
        /\ input = Envelope1 \o Flatten(hunks)
        /\ hunk = NoHunk
        /\ heap = <<>>
        /\ slider = NoSlider
        /\ last = NoLast
        /\ nslides = 0
        /\ filediff = NoFileDiff
        /\ result = NoResult

NextHunks == ParseFileDiff

SpecHunks == InitHunks /\ [][NextHunks]_vars

\* a bad hunk: its header does not match, a body line is empty, or a body
\* line has a prefix other than ' ', '+', '-', '\'
BadHunk(lines) ==
    \/ ~HEADER_RE(lines[1]).matched
    \/ \E k \in 2..Len(lines) :
          \/ lines[k] = <<>>
          \/ lines[k][1] \notin {" ", "+", "-", "\\"}

\* the hunks of a section from line i on that are not bad, as Hunk objects
RECURSIVE WellFormedHunks(_, _)
WellFormedHunks(lines, i) ==
    IF i >= Len(lines) THEN <<>>
    ELSE LET end == HunkEnd(lines, i + 1)
         IN IF BadHunk(Slice(lines, i, end))
            THEN WellFormedHunks(lines, end)
            ELSE <<Hunk(Slice(lines, i, end))>> \o WellFormedHunks(lines, end)

\* FileDiff has returned or raised for a section of Envelope1 and hunks
SectionOfHunksDone ==
    /\ FileDiffDone
    /\ Len(input) >= 4
    /\ Slice(input, 0, 4) = Envelope1
    /\ Len(input) > 4 => StartsWith(input[5], <<"@", "@", " ">>)

\* C12: FileDiff construction completes whatever bad hunks the section
\* holds, and hunks holds the hunks that are not bad, in order.
C12_PerHunkRecovery ==
    SectionOfHunksDone =>
        /\ pc = "filediff"
        /\ filediff.hunks = WellFormedHunks(input, 4)

-----------------------------------------------------------------------------
(* The state machine of one iteration over iter_shifts(lines).             *)

InitShifts ==
    \E lines \in SeqsUpTo(ShiftLines, MaxShiftLines) :
        /\ pc = "shifts"
        /\ input = lines
        /\ hunk = NoHunk
        /\ heap = <<>>
        /\ slider = NoSlider
        /\ last = NoLast
        /\ nslides = 0
        /\ filediff = NoFileDiff
        /\ result = [kind |-> "iter_shifts", i |-> 0, yielded |-> <<>>]

AfterNextShifts(r) ==
    /\ pc' = IF r.exc = "none" THEN "shifts"
             ELSE IF r.exc = "StopIteration" THEN "done"
             ELSE r.exc
    /\ result' = [result EXCEPT
           !.i = r.i,
           !.yielded = IF r.exc = "none" THEN Append(@, r.value) ELSE @]

NextShifts ==
    /\ pc = "shifts"
    /\ AfterNextShifts(iter_shifts_next(input, result.i))
    /\ UNCHANGED <<input, hunk, heap, slider, last, nslides, filediff>>

SpecShifts == InitShifts /\ [][NextShifts]_vars

\* the fields of a line, and whether a field is an integer literal
Fields(line) == split(line)

IsInteger(word) ==
    /\ int_digits(word) # <<>>
    /\ \A k \in 1..Len(int_digits(word)) : IsDigit(int_digits(word)[k])

\* a line that must raise ParsingError: fewer than four fields, a line
\* number that is not an integer, or a shift that is not an integer
MustRaise(line) ==
    /\ ~COMMENT_RE(line)
    /\ \/ Len(Fields(line)) < 4
       \/ \E k \in 4..Len(Fields(line)) : ~IsInteger(Fields(line)[k])

\* C13: every line read by iter_shifts is skipped, yields a tuple with an
\* integer line number and integer shifts, or raises ParsingError; a line
\* of fewer than four fields, of a line number or of a shift that is not an
\* integer raises ParsingError and no other exception.
C13_ShiftsOrParsingError ==
    result.kind = "iter_shifts" =>
        /\ pc \in {"shifts", "done", "ParsingError"}
        /\ \A k \in 1..Len(result.yielded) :
              /\ result.yielded[k].line_number \in Int
              /\ \A n \in 1..Len(result.yielded[k].shifts) :
                    result.yielded[k].shifts[n] \in Int
        /\ (pc # "shifts" /\ result.i > 0 /\ MustRaise(input[result.i]))
               => pc = "ParsingError"

-----------------------------------------------------------------------------
(* The state machine of one measurement and its evaluation.                *)

InitMeasure ==
    \E lines \in SeqsUpTo(MeasureTexts, MaxMeasureLines) :
        /\ pc = "args"
        /\ input = lines
        /\ hunk = NoHunk
        /\ heap = <<>>
        /\ slider = NoSlider
        /\ last = NoLast
        /\ nslides = 0
        /\ filediff = NoFileDiff
        /\ result = NoResult

\* m = SplitMeasurements.measure(lines, index)
Measure(index) ==
    /\ pc = "args"
    /\ pc' = "measured"
    /\ result' = [kind |-> "measure", index |-> index,
                  m |-> measure(input, index)]
    /\ UNCHANGED <<input, hunk, heap, slider, last, nslides, filediff>>

\* score = SplitScorer3().evaluate(m)
Evaluate ==
    /\ pc = "measured"
    /\ pc' = "done"
    /\ result' = [kind |-> "evaluate", index |-> result.index, m |-> result.m,
                  score |-> evaluate(result.m)]
    /\ UNCHANGED <<input, hunk, heap, slider, last, nslides, filediff>>

NextMeasure ==
    \/ \E index \in 0..Len(input) : Measure(index)
    \/ Evaluate

SpecMeasure == InitMeasure /\ [][NextMeasure]_vars

Blank(line) == \A k \in 1..Len(line) : IsSpace(line[k])

\* the number of consecutive blank lines immediately before lines[j]
PreBlankCount(lines, j) ==
    CHOOSE n \in 0..j :
        /\ \A k \in (j - n + 1)..j : Blank(lines[k])
        /\ n = j \/ ~Blank(lines[j - n])

\* the number of consecutive blank lines strictly after lines[j]
PostBlankCount(lines, j) ==
    CHOOSE n \in 0..Max(Len(lines) - j - 1, 0) :
        /\ \A k \in (j + 2)..(j + 1 + n) : Blank(lines[k])
        /\ n = Max(Len(lines) - j - 1, 0) \/ ~Blank(lines[j + 2 + n])

Measured(lines, j) ==
    [end_of_hunk |-> j >= Len(lines),
     indent |-> IF j >= Len(lines) \/ Blank(lines[j + 1]) THEN None
                ELSE get_indent(lines[j + 1]),
     pre_blank |-> PreBlankCount(lines, j),
     pre_indent |-> IF PreBlankCount(lines, j) = j THEN None
                    ELSE get_indent(lines[j - PreBlankCount(lines, j)]),
     post_blank |-> PostBlankCount(lines, j),
     post_indent |-> IF j + 1 + PostBlankCount(lines, j) >= Len(lines) THEN None
                     ELSE get_indent(lines[j + 2 + PostBlankCount(lines, j)])]

RelativePenalty(indent, pre_indent, post_indent, with_blank) ==
    IF indent > pre_indent
    THEN (IF with_blank THEN 10 ELSE -4)
    ELSE IF indent = pre_indent THEN 0
    ELSE IF post_indent = None \/ indent >= post_indent
    THEN (IF with_blank THEN 17 ELSE 23)
    ELSE (IF with_blank THEN 17 ELSE 24)

PostBlankOf(m) == IF m.indent = None THEN 1 + m.post_blank ELSE 0

TotalBlankOf(m) == m.pre_blank + PostBlankOf(m)

EffectiveIndentOf(m) ==
    IF m.indent = None /\ m.post_indent = None THEN -1
    ELSE IF m.indent # None THEN m.indent ELSE m.post_indent

BasePenaltyOf(m) ==
    (IF m.pre_indent = None /\ m.pre_blank = 0 THEN 1 ELSE 0)
    + (IF m.end_of_hunk THEN 21 ELSE 0)
    + (-30) * TotalBlankOf(m) + 6 * PostBlankOf(m)

\* C15 as stated: the relative penalty is applied only when the indent of
\* the line and pre_indent are both defined.
C15_RelativePenaltyOfIndent ==
    result.kind = "evaluate" =>
        /\ result.score.effective_indent = EffectiveIndentOf(result.m)
        /\ result.score.penalty =
               BasePenaltyOf(result.m)
               + (IF result.m.indent = None \/ result.m.pre_indent = None THEN 0
                  ELSE RelativePenalty(result.m.indent, result.m.pre_indent,
                                       result.m.post_indent,
                                       TotalBlankOf(result.m) > 0))

\* C15, amended: evaluate returns the effective indent and the penalty of
\* the claim, the relative penalty being that of the effective indent (the
\* indent of the line, or post_indent for a blank line) against pre_indent,
\* applied when the effective indent is not -1 and pre_indent is defined.
C15_RelativePenaltyOfEffectiveIndent ==
    result.kind = "evaluate" =>
        /\ result.score.effective_indent = EffectiveIndentOf(result.m)
        /\ result.score.penalty =
               BasePenaltyOf(result.m)
               + (IF EffectiveIndentOf(result.m) = -1 \/ result.m.pre_indent = None
                  THEN 0
                  ELSE RelativePenalty(EffectiveIndentOf(result.m),
                                       result.m.pre_indent, result.m.post_indent,
                                       TotalBlankOf(result.m) > 0))

\* a blank line between a line of indent 1 and a line of indent 0
C15_Witness ==
    /\ result.kind = "evaluate"
    /\ result.m.indent = None
    /\ result.m.pre_indent = 1
    /\ result.m.post_indent = 0
    /\ result.score.penalty = (-30) * TotalBlankOf(result.m)
                              + 6 * PostBlankOf(result.m) + 17

-----------------------------------------------------------------------------
(* The sizes of the groups, the shift range and the Change under slide.    *)

\* slide(shift) has just returned, called directly or by shift_canonically
Slid == pc = "slider" /\ last.op \in {"slide", "shift_canonically"}

\* C16: slide(s) for s in the current shift_range leaves len(change)
\* unchanged, changes len(pre_context) by s, len(post_context) by -s and
\* line_number by s, and shifts shift_range by -s.
C16_SlideMovesExactly ==
    Slid =>
        /\ Len(Chg(heap, slider)) = Len(last.before.change)
        /\ Len(Pre(heap, slider)) = Len(last.before.pre) + last.shift
        /\ Len(Post(heap, slider)) = Len(last.before.post) - last.shift
        /\ slider.line_number = last.before.line_number + last.shift
        /\ slider.shift_range.start = last.before.shift_range.start - last.shift
        /\ slider.shift_range.stop = last.before.shift_range.stop - last.shift

\* C17: after slide(s) the stored shift_range is what _compute_shift_range()
\* returns on the current groups (here where the groups still hold the
\* lines of the slider as constructed).
C17_StoredRangeIsComputed ==
    (Slid /\ OwnSide = OriginalOwnSide /\ OtherSide = OriginalOtherSide) =>
        slider.shift_range = compute_shift_range(heap, slider)

\* C18: in every state reached by slides within shift_range, every s of
\* shift_range has -len(pre_context) <= s and
\* s + len(change) <= len(change) + len(post_context).
C18_GetScoreAssertionsHold ==
    pc = "slider" =>
        \A s \in RangeSet(slider.shift_range) :
            /\ 0 - Len(Pre(heap, slider)) <= s
            /\ s + Len(Chg(heap, slider))
                 <= Len(Chg(heap, slider)) + Len(Post(heap, slider))

\* C19: after any slides of a '+' slider, change.adds holds the lines of
\* change.difflines in order and change.deletes is empty; symmetrically for
\* a '-' slider.
C19_ChangeSidesAreDifflines ==
    pc = "slider" =>
        /\ heap[slider.change.adds]
             = (IF slider.change.prefix = "+" THEN Chg(heap, slider) ELSE <<>>)
        /\ heap[slider.change.deletes]
             = (IF slider.change.prefix = "-" THEN Chg(heap, slider) ELSE <<>>)

-----------------------------------------------------------------------------
(* The ordering of the scores of SplitScorer3.                             *)

\* the shifts of shift_range that get_score scores without a failed assert
ScoredShifts ==
    {s \in RangeSet(slider.shift_range) :
        get_score(heap, slider, NoMeasurements, s).exc = "none"}

\* C20: the ordering of the scores is a total preorder: any two scores of
\* the shifts of a slider are comparable under <=, and <= is transitive on
\* them.
C20_ScoreOrderIsTotalPreorder ==
    pc = "slider" =>
        LET score == [s \in ScoredShifts |-> ScoreOf(s)]
        IN  /\ \A a, b \in ScoredShifts :
                  ScoreLe(score[a], score[b]) \/ ScoreLe(score[b], score[a])
            /\ \A a, b, c \in ScoredShifts :
                  (ScoreLe(score[a], score[b]) /\ ScoreLe(score[b], score[c]))
                      => ScoreLe(score[a], score[c])

====
